---- MODULE Spec2Model ----
(***************************************************************************)
(* A model of services/rateLimit.ts: the ThrottleQueue (bounded            *)
(* concurrency with a minimum interval between job starts), withRetry      *)
(* (exponential backoff with jitter and server hints) and their            *)
(* composition runGemini.                                                  *)
(*                                                                         *)
(* JavaScript runs each handler (a call, a timer callback, a promise       *)
(* continuation) to completion, so every action below is one such run:     *)
(* the synchronous part of a call up to its first await, or the            *)
(* continuation after an await up to the next one.                         *)
(***************************************************************************)
EXTENDS Integers, Sequences, FiniteSets, TLC

\* ---------------------------------------------------------------- bounds
MaxJobs == 3
MaxConcurrency == 2
MaxMinTime == 2
Horizon == 3
MaxRetries == 2
MaxCalls == 2
MaxFailures == 2
MaxFragments == 3

Jobs == 1..MaxJobs

\* const limiter = new ThrottleQueue(1, 1400)
LimiterConcurrency == 1
LimiterMinTimeMs == 1400

\* Date.now() when the queue is built: far enough from 0 (the initial
\* lastStartAt) that the first job is never paced.
Epoch == LimiterMinTimeMs + MaxMinTime

Max(a, b) == IF a >= b THEN a ELSE b
Min(a, b) == IF a <= b THEN a ELSE b

VARIABLES
    concurrency,   \* ThrottleQueue.concurrency (readonly)
    minTimeMs,     \* ThrottleQueue.minTimeMs (readonly)
    running,       \* ThrottleQueue.running
    lastStartAt,   \* ThrottleQueue.lastStartAt
    queue,         \* ThrottleQueue.queue: the pending entries, by job id
    now,           \* Date.now()
    nsub,          \* number of jobs/calls made so far; their ids are 1..nsub
    kind,          \* per job: how its body behaves, see BodyKinds
    jst,           \* per job: "none", "queued", "sleeping", "running", "done"
    wakeAt,        \* per job: when the pacing timer set by sleep(waitMs) is due
    handle,        \* per job: the promise returned by schedule()
    body,          \* per job: what the body produced (NoOutcome until it ends)
    starts,        \* the job bodies invoked so far, in order, with the instant
    opts,          \* withRetry's options, defaults applied
    rt,            \* per call of withRetry: its locals and what it did so far
    calls,         \* the operation's invocations so far, in order, with the instant
    arg,           \* the argument of the function applied on its own (<<>> when none is)
    ret,           \* what that function returned: {} before it has, {v} after
    images,        \* App: the images state, an array of InspectionImage
    activeIndex,   \* App: the activeIndex state (0-based, as in the source)
    zoomingId,     \* App: the zoomingId state, 0 for null
    readers,       \* App: the FileReaders that have not fired onload yet, by file
    analyses,      \* App: the analyzeImage calls in flight, with what their caller captured
    zooms,         \* App: the zoomAnalysis calls in flight, with what their caller captured
    nimg,          \* App: number of images created so far; their ids are 1..nimg
    ncall,         \* App: number of analyzeImage calls made so far
    nup            \* App: number of file selections made so far

appVars == <<images, activeIndex, zoomingId, readers, analyses, zooms, nimg, ncall, nup>>

vars == <<concurrency, minTimeMs, running, lastStartAt, queue, now, nsub,
          kind, jst, wakeAt, handle, body, starts, opts, rt, calls, arg, ret, appVars>>

\* ------------------------------------------------------------- strings
\* A JavaScript string is modelled as the sequence of its characters.
UpperCase == <<"A", "B", "C", "D", "E", "F", "G", "H", "I", "J", "K", "L", "M",
               "N", "O", "P", "Q", "R", "S", "T", "U", "V", "W", "X", "Y", "Z">>
LowerCase == <<"a", "b", "c", "d", "e", "f", "g", "h", "i", "j", "k", "l", "m",
               "n", "o", "p", "q", "r", "s", "t", "u", "v", "w", "x", "y", "z">>
Digits == <<"0", "1", "2", "3", "4", "5", "6", "7", "8", "9">>

Range(s) == {s[i] : i \in 1..Len(s)}
SetMin(S) == CHOOSE x \in S : \A y \in S : x <= y

LowerChar(c) ==
    IF c \in Range(UpperCase)
    THEN LowerCase[CHOOSE i \in 1..Len(UpperCase) : UpperCase[i] = c]
    ELSE c

\* String.prototype.toLowerCase
toLowerCase(s) == [i \in 1..Len(s) |-> LowerChar(s[i])]

\* String.prototype.includes
includes(s, p) ==
    \E i \in 0..(Len(s) - Len(p)) : SubSeq(s, i + 1, i + Len(p)) = p

IsDigit(c) == c \in Range(Digits)
IsSpace(c) == c \in {" ", "\t", "\n"}                               \* \s
IsWordChar(c) == c \in Range(UpperCase) \cup Range(LowerCase) \cup Range(Digits) \cup {"_"}  \* \w

DigitValue(c) == (CHOOSE i \in 1..Len(Digits) : Digits[i] = c) - 1

\* Number("14")
RECURSIVE Number(_)
Number(ds) ==
    IF ds = <<>> THEN 0
    ELSE 10 * Number(SubSeq(ds, 1, Len(ds) - 1)) + DigitValue(ds[Len(ds)])

\* The length of the run of \s (of [0-9]) that starts at position i.
RECURSIVE SpaceRun(_, _)
SpaceRun(s, i) ==
    IF i <= Len(s) /\ IsSpace(s[i]) THEN 1 + SpaceRun(s, i + 1) ELSE 0

RECURSIVE DigitRun(_, _)
DigitRun(s, i) ==
    IF i <= Len(s) /\ IsDigit(s[i]) THEN 1 + DigitRun(s, i + 1) ELSE 0

\* The literal lit (in lower case) matches at position i, ignoring case.
MatchesAt(s, i, lit) ==
    /\ i + Len(lit) - 1 <= Len(s)
    /\ toLowerCase(SubSeq(s, i, i + Len(lit) - 1)) = lit

\* The substrings and keywords the code looks for.
LitResourceExhausted == <<"r", "e", "s", "o", "u", "r", "c", "e", "_", "e", "x", "h", "a", "u", "s", "t", "e", "d">>
LitQuota == <<"q", "u", "o", "t", "a">>
LitRateLimit == <<"r", "a", "t", "e", " ", "l", "i", "m", "i", "t">>
LitNetwork == <<"n", "e", "t", "w", "o", "r", "k">>
LitFetch == <<"f", "e", "t", "c", "h">>
LitTimeout == <<"t", "i", "m", "e", "o", "u", "t">>
LitRetryDelay == <<"r", "e", "t", "r", "y", "d", "e", "l", "a", "y", ":">>
LitRetry == <<"r", "e", "t", "r", "y">>
LitAfter == <<"a", "f", "t", "e", "r">>
LitRetryAfter == <<"r", "e", "t", "r", "y", "a", "f", "t", "e", "r", ":">>

\* Error messages the remote call is seen to fail with.
\* "invalid argument"
MsgInvalid == <<"i", "n", "v", "a", "l", "i", "d", " ", "a", "r", "g", "u", "m", "e", "n", "t">>
\* "Too Many Requests"
MsgTooMany == <<"T", "o", "o", " ", "M", "a", "n", "y", " ", "R", "e", "q", "u", "e", "s", "t", "s">>
\* "RESOURCE_EXHAUSTED RetryDelay: 14s"
MsgExhausted == <<"R", "E", "S", "O", "U", "R", "C", "E", "_", "E", "X", "H", "A", "U", "S", "T", "E", "D", " ", "R", "e", "t", "r", "y", "D", "e", "l", "a", "y", ":", " ", "1", "4", "s">>
\* "Service unavailable (503)"
MsgUnavailable == <<"S", "e", "r", "v", "i", "c", "e", " ", "u", "n", "a", "v", "a", "i", "l", "a", "b", "l", "e", " ", "(", "5", "0", "3", ")">>
\* "fetch failed"
MsgFetch == <<"f", "e", "t", "c", "h", " ", "f", "a", "i", "l", "e", "d">>

\* --------------------------------------------------------------- errors
\* What the operation given to withRetry throws: an error object with the
\* optional numeric fields the code reads (absent: the empty set) and a
\* message. An error is identified by its place in the table, so that "the
\* same error" is identity, as it is for a JavaScript object.
ErrorTable ==
    << [status |-> {},    code |-> {},    respStatus |-> {},    message |-> MsgInvalid],
       [status |-> {429}, code |-> {},    respStatus |-> {},    message |-> MsgTooMany],
       [status |-> {},    code |-> {},    respStatus |-> {},    message |-> MsgExhausted],
       [status |-> {},    code |-> {},    respStatus |-> {},    message |-> MsgUnavailable],
       [status |-> {500}, code |-> {},    respStatus |-> {429}, message |-> MsgFetch] >>

ErrorIds == 1..Len(ErrorTable)

\* The statuses the message is searched for, /\b(429|500|502|503|504)\b/.
StatusTexts ==
    << [text |-> <<"4", "2", "9">>, num |-> 429],
       [text |-> <<"5", "0", "0">>, num |-> 500],
       [text |-> <<"5", "0", "2">>, num |-> 502],
       [text |-> <<"5", "0", "3">>, num |-> 503],
       [text |-> <<"5", "0", "4">>, num |-> 504] >>

\* \b at the gap before position i of s.
WordBoundary(s, i) ==
    LET before == i > 1 /\ i - 1 <= Len(s) /\ IsWordChar(s[i - 1])
        after  == i >= 1 /\ i <= Len(s) /\ IsWordChar(s[i])
    IN  before # after

StatusTextAt(s, i, k) ==
    /\ MatchesAt(s, i, StatusTexts[k].text)
    /\ WordBoundary(s, i)
    /\ WordBoundary(s, i + Len(StatusTexts[k].text))

\* extractStatusCode(err): a set holding the status, empty for undefined.
extractStatusCode(err) ==
    IF err.status # {} THEN err.status
    ELSE IF err.code # {} THEN err.code
    ELSE IF err.respStatus # {} THEN err.respStatus
    ELSE LET s == err.message
             hits == {i \in 1..Len(s) : \E k \in 1..Len(StatusTexts) : StatusTextAt(s, i, k)}
         IN  IF hits = {} THEN {}
             ELSE LET i == SetMin(hits)
                      k == CHOOSE n \in 1..Len(StatusTexts) : StatusTextAt(s, i, n)
                  IN  {StatusTexts[k].num}

\* Mutant: server errors (5xx) are retried as well.
shouldRetryServerErrors(status, msg, err) ==
    LET text == toLowerCase(msg)
    IN  \/ status \in {{429}, {500}, {502}, {503}, {504}}
        \/ includes(text, LitResourceExhausted)
        \/ includes(text, LitQuota)
        \/ includes(text, LitRateLimit)
        \/ includes(text, LitNetwork) \/ includes(text, LitFetch)
        \/ includes(text, LitTimeout)
        \/ err.respStatus = {429}

\* Mutant: the status nested in err.response is not looked at.
shouldRetryNoNested(status, msg, err) ==
    LET text == toLowerCase(msg)
    IN  \/ status = {429}
        \/ includes(text, LitResourceExhausted)
        \/ includes(text, LitQuota)
        \/ includes(text, LitRateLimit)
        \/ includes(text, LitNetwork) \/ includes(text, LitFetch)
        \/ includes(text, LitTimeout)

\* shouldRetry(status, msg, err)
shouldRetry(status, msg, err) ==
    LET text == toLowerCase(msg)
    IN  \/ status = {429}
        \/ includes(text, LitResourceExhausted)
        \/ includes(text, LitQuota)
        \/ includes(text, LitRateLimit)
        \/ includes(text, LitNetwork) \/ includes(text, LitFetch)
        \/ includes(text, LitTimeout)
        \/ err.respStatus = {429}

\* /RetryDelay:\s*([0-9]+)\s*s/i tried at position i: whether it matches and
\* the digits it captures.
RetryDelayAt(s, i) ==
    LET a == i + Len(LitRetryDelay)
        b == a + SpaceRun(s, a)
        e == b + DigitRun(s, b)
        f == e + SpaceRun(s, e)
    IN  [ok |-> /\ MatchesAt(s, i, LitRetryDelay)
                /\ e > b
                /\ f <= Len(s)
                /\ LowerChar(s[f]) = "s",
         digits |-> SubSeq(s, b, e - 1)]

\* /retry\s*after\s*([0-9]+)\s*s/i tried at position i.
RetryAfterSecondsAt(s, i) ==
    LET a == i + Len(LitRetry)
        b == a + SpaceRun(s, a)
        c == b + Len(LitAfter)
        d == c + SpaceRun(s, c)
        e == d + DigitRun(s, d)
        f == e + SpaceRun(s, e)
    IN  [ok |-> /\ MatchesAt(s, i, LitRetry)
                /\ MatchesAt(s, b, LitAfter)
                /\ e > d
                /\ f <= Len(s)
                /\ LowerChar(s[f]) = "s",
         digits |-> SubSeq(s, d, e - 1)]

\* /retryAfter:\s*([0-9]+)/i tried at position i.
RetryAfterMsAt(s, i) ==
    LET a == i + Len(LitRetryAfter)
        b == a + SpaceRun(s, a)
        e == b + DigitRun(s, b)
    IN  [ok |-> MatchesAt(s, i, LitRetryAfter) /\ e > b,
         digits |-> SubSeq(s, b, e - 1)]

\* String.prototype.match without the g flag: the leftmost match, as the set
\* of its capture (empty when there is no match). at[i] is the attempt to
\* match at position i.
FirstMatch(at) ==
    LET hits == {i \in DOMAIN at : at[i].ok}
    IN  IF hits = {} THEN {} ELSE {at[SetMin(hits)].digits}

\* Mutant: the largest of the delays the three patterns read is returned.
parseRetryDelayMsLargest(message) ==
    LET m  == FirstMatch([i \in 1..Len(message) |-> RetryDelayAt(message, i)])
        m2 == FirstMatch([i \in 1..Len(message) |-> RetryAfterSecondsAt(message, i)])
        m3 == FirstMatch([i \in 1..Len(message) |-> RetryAfterMsAt(message, i)])
        all == {Number(d) * 1000 : d \in m \cup m2} \cup {Number(d) : d \in m3}
    IN  {n \in all : \A k \in all : k <= n}

\* parseRetryDelayMs(message): a set holding the delay, empty for undefined.
parseRetryDelayMs(message) ==
    LET m  == FirstMatch([i \in 1..Len(message) |-> RetryDelayAt(message, i)])
        m2 == FirstMatch([i \in 1..Len(message) |-> RetryAfterSecondsAt(message, i)])
        m3 == FirstMatch([i \in 1..Len(message) |-> RetryAfterMsAt(message, i)])
    IN  IF m # {} THEN {Number(d) * 1000 : d \in m}
        ELSE IF m2 # {} THEN {Number(d) * 1000 : d \in m2}
        ELSE IF m3 # {} THEN {Number(d) : d \in m3}
        ELSE {}

\* x ?? 0, for x a set holding at most one number.
OrZero(x) == IF x = {} THEN 0 ELSE CHOOSE n \in x : TRUE

\* What the catch block of withRetry computes from the error alone, for each
\* entry of ErrorTable:
\*   const status = extractStatusCode(err); const msg = String(err?.message ?? err);
\*   shouldRetry(status, msg, err); parseRetryDelayMs(msg)
Caught ==
    [e \in ErrorIds |->
        LET err == ErrorTable[e]
            status == extractStatusCode(err)
            msg == err.message
        IN  [retry |-> shouldRetry(status, msg, err),
             serverDelayMs |-> parseRetryDelayMs(msg)]]

\* ------------------------------------------------------------- outcomes
NoOutcome == [tag |-> "none", from |-> 0, err |-> 0]
\* The value a body (the operation) of job j returns, the error it throws
\* of its own, and entry e of ErrorTable thrown in call c.
Val(j) == [tag |-> "value", from |-> j, err |-> 0]
Err(j) == [tag |-> "error", from |-> j, err |-> 0]
Thrown(c, e) == [tag |-> "error", from |-> c, err |-> e]

PendingHandle == [state |-> "pending", value |-> NoOutcome, calls |-> 0]

\* Mutant: the handle is settled in the try/catch and once more in finally.
SettleTwice(hd, out) ==
    [state |-> IF hd.state # "pending" THEN hd.state
               ELSE IF out.tag = "value" THEN "resolved" ELSE "rejected",
     value |-> IF hd.state # "pending" THEN hd.value ELSE out,
     calls |-> hd.calls + 2]

\* job.resolve(result) / job.reject(e): a promise keeps its first settlement.
Settle(hd, out) ==
    [state |-> IF hd.state # "pending" THEN hd.state
               ELSE IF out.tag = "value" THEN "resolved" ELSE "rejected",
     value |-> IF hd.state # "pending" THEN hd.value ELSE out,
     calls |-> hd.calls + 1]

\* ---------------------------------------------------------------- heap
\* The mutable state a handler reads and writes, passed through the
\* operators below so a handler that calls pump() recursively is one step.
Heap ==
    [running |-> running, lastStartAt |-> lastStartAt, queue |-> queue,
     kind |-> kind, jst |-> jst, wakeAt |-> wakeAt, handle |-> handle,
     body |-> body, starts |-> starts, rt |-> rt, calls |-> calls]

Commit(h) ==
    /\ running' = h.running
    /\ lastStartAt' = h.lastStartAt
    /\ queue' = h.queue
    /\ kind' = h.kind
    /\ jst' = h.jst
    /\ wakeAt' = h.wakeAt
    /\ handle' = h.handle
    /\ body' = h.body
    /\ starts' = h.starts
    /\ rt' = h.rt
    /\ calls' = h.calls

\* ------------------------------------------------------------ withRetry
\* The floor of the delay, Math.max(250, ...)
MinDelayMs == 250

\* Math.round of the rational n / d (d > 0): halves round up.
Round(n, d) == (2 * n + d) \div (2 * d)

\* Mutant: the budget check off by one, attempt >= maxRetries.
ExhaustedEarly(attempt) == attempt >= opts.maxRetries

\* Mutant: one retry more than the budget allows.
ExhaustedLate(attempt) == attempt > opts.maxRetries + 1

\* if (attempt > maxRetries) throw err;
Exhausted(attempt) == attempt > opts.maxRetries

\* Mutant: the exponential term is not cut at maxDelayMs.
ExpDelayUncapped(attempt) == opts.baseDelayMs * 2 ^ (attempt - 1)

\* Math.min(maxDelayMs, baseDelayMs * Math.pow(2, attempt - 1))
ExpDelay(attempt) == Min(opts.maxDelayMs, opts.baseDelayMs * 2 ^ (attempt - 1))

\* Mutant: the server's advice is cut at maxDelayMs like the exponential term.
BaseDelayCapped(serverDelayMs, exp) ==
    Min(opts.maxDelayMs, Max(OrZero(serverDelayMs), exp))

\* Math.max(serverDelayMs ?? 0, exp)
BaseDelay(serverDelayMs, exp) == Max(OrZero(serverDelayMs), exp)

\* Mutant: the jittered delay is rounded but not floored at 250.
JitteredNoFloor(delayMs, u) ==
    Round(delayMs * 10000 + delayMs * opts.jitterRatio * u, 10000)

\* delayMs + delayMs * jitterRatio * (Math.random() * 2 - 1), rounded and
\* floored at 250. jitterRatio and the sample u = Math.random() * 2 - 1 are
\* in hundredths.
Jittered(delayMs, u) ==
    Max(MinDelayMs, Round(delayMs * 10000 + delayMs * opts.jitterRatio * u, 10000))

\* The locals of a call of withRetry, and what it has done.
\*   pc: "idle", "calling" (awaiting fn()), "backoff" (awaiting sleep),
\*       "returned", "thrown"
\*   log: what it did, in the order the code does it: "invoke" (fn()),
\*       "fail" (the catch block is entered), "observe" (onRetry), "sleep"
\*       (sleep(delayMs) is called), "wake" (the sleep is over), "return",
\*       "throw"
IdleRetry ==
    [pc |-> "idle", attempt |-> 0, failed |-> <<>>, observed |-> <<>>,
     slept |-> <<>>, sleepUntil |-> 0, result |-> NoOutcome, log |-> <<>>]

\* fn() is invoked: return await fn()
invoke(h, c, t) ==
    [h EXCEPT !.rt[c].pc = "calling",
              !.rt[c].log = Append(@, "invoke"),
              !.calls = Append(@, [call |-> c, at |-> t])]

\* Mutant: the operation is invoked once to warm up, its result dropped,
\* before the loop invokes it.
withRetryWarmUp(h, c, t) ==
    invoke(invoke([h EXCEPT !.rt[c] = IdleRetry], c, t), c, t)

\* withRetry(fn, opts), up to its first await.
withRetry(h, c, t) == invoke([h EXCEPT !.rt[c] = IdleRetry], c, t)

RECURSIVE pump(_, _)
RECURSIVE startJob(_, _, _)
RECURSIVE finish(_, _, _, _)

\* ------------------------------------------------------- ThrottleQueue
\* Mutant: the guard off by one, running > concurrency.
SlotsFullOffByOne(r) == r > concurrency

\* if (this.running >= this.concurrency) return;
SlotsFull(r) == r >= concurrency

\* Mutant: queue.pop() in place of queue.shift().
ShiftLast(q) == [job |-> q[Len(q)], rest |-> SubSeq(q, 1, Len(q) - 1)]

\* const job = this.queue.shift();
Shift(q) == [job |-> Head(q), rest |-> Tail(q)]

\* Mutant: the operands of the subtraction swapped.
WaitMsReversed(t, last) == Max(0, (t - last) - minTimeMs)

\* Mutant: every dequeued job waits minTimeMs from its dequeue, as if the
\* pacing ran from the end of the job before it.
WaitMsFromDequeue(t, last) == minTimeMs

\* Math.max(0, this.minTimeMs - (now - this.lastStartAt))
WaitMs(t, last) == Max(0, minTimeMs - (t - last))

\* this.running--
Release(r) == r - 1

\* Mutant: running-- and pump() at the end of the try block, not in finally,
\* so that a failed job keeps its slot.
finishLeakOnError(h, j, out, t) ==
    LET h1 == [h EXCEPT !.handle[j] = Settle(@, out),
                        !.body[j] = out,
                        !.jst[j] = "done"]
    IN  IF out.tag = "error" THEN h1
        ELSE pump([h1 EXCEPT !.running = Release(@)], t)

\* Mutant: the finally block frees the slot but does not call pump().
finishNoPump(h, j, out, t) ==
    [h EXCEPT !.handle[j] = Settle(@, out),
              !.body[j] = out,
              !.jst[j] = "done",
              !.running = Release(@)]

\* job.resolve(result) or job.reject(e), then this.running--: the heap the
\* finally block calls pump() on, the body of job j having ended with out.
ended(h, j, out) ==
    [h EXCEPT !.handle[j] = Settle(@, out),
              !.body[j] = out,
              !.jst[j] = "done",
              !.running = Release(@)]

\* Mutant: the finally block calls pump() before it frees the slot.
finishPumpBeforeRelease(h, j, out, t) ==
    LET h1 == pump([h EXCEPT !.handle[j] = Settle(@, out),
                             !.body[j] = out,
                             !.jst[j] = "done"], t)
    IN  [h1 EXCEPT !.running = Release(@)]

\* try { result = await job.fn(); job.resolve(result) } catch (e)
\* { job.reject(e) } finally { this.running--; this.pump() }: the part that
\* runs once the body of job j has ended with outcome out.
finish(h, j, out, t) == pump(ended(h, j, out), t)

\* Mutant: lastStartAt is set to the instant the pacing timer was due, not
\* to the instant the body is invoked.
startJobPlannedStart(h, j, t) ==
    LET h1 == [h EXCEPT !.lastStartAt = IF h.wakeAt[j] > 0 THEN h.wakeAt[j] ELSE t,
                        !.jst[j] = "running",
                        !.starts = Append(@, [job |-> j, at |-> t])]
    IN  CASE h1.kind[j] = "throws" -> finish(h1, j, Err(j), t)
          [] h1.kind[j] = "retry"  -> withRetry(h1, j, t)
          [] OTHER -> h1

\* Mutant: the body is invoked without this.lastStartAt being updated.
startJobKeepsLastStart(h, j, t) ==
    LET h1 == [h EXCEPT !.jst[j] = "running",
                        !.starts = Append(@, [job |-> j, at |-> t])]
    IN  CASE h1.kind[j] = "throws" -> finish(h1, j, Err(j), t)
          [] h1.kind[j] = "retry"  -> withRetry(h1, j, t)
          [] OTHER -> h1

\* this.lastStartAt = Date.now(); ... job.fn(): the body of job j is invoked.
\* A body that throws before returning a promise lands in the catch at once;
\* the body runGemini submits calls withRetry.
startJob(h, j, t) ==
    LET h1 == [h EXCEPT !.lastStartAt = t,
                        !.jst[j] = "running",
                        !.starts = Append(@, [job |-> j, at |-> t])]
    IN  CASE h1.kind[j] = "throws" -> finish(h1, j, Err(j), t)
          [] h1.kind[j] = "retry"  -> withRetry(h1, j, t)
          [] OTHER -> h1

\* Mutant: the head is taken without this.running++.
pumpNoCount(h, t) ==
    IF SlotsFull(h.running) THEN h
    ELSE IF h.queue = <<>> THEN h
    ELSE LET sh == Shift(h.queue)
             j  == sh.job
             h1 == [h EXCEPT !.queue = sh.rest]
             waitMs == WaitMs(t, h1.lastStartAt)
         IN  IF waitMs > 0
             THEN [h1 EXCEPT !.jst[j] = "sleeping", !.wakeAt[j] = t + waitMs]
             ELSE startJob(h1, j, t)

\* pump(), up to its first await.
pump(h, t) ==
    IF SlotsFull(h.running) THEN h
    ELSE IF h.queue = <<>> THEN h
    ELSE LET sh == Shift(h.queue)
             j  == sh.job
             h1 == [h EXCEPT !.queue = sh.rest, !.running = @ + 1]
             waitMs == WaitMs(t, h1.lastStartAt)
         IN  IF waitMs > 0
             THEN [h1 EXCEPT !.jst[j] = "sleeping", !.wakeAt[j] = t + waitMs]
             ELSE startJob(h1, j, t)

\* this.queue.push({ fn, resolve, reject }): the heap schedule calls pump() on.
push(h, j, k) ==
    [h EXCEPT !.queue = Append(@, j), !.kind[j] = k, !.jst[j] = "queued"]

\* Mutant: a job submitted while every slot is taken is refused.
scheduleRefusesWhenFull(h, j, k, t) ==
    IF SlotsFull(h.running) THEN h ELSE pump(push(h, j, k), t)

\* schedule(fn): push the entry, then pump().
schedule(h, j, k, t) == pump(push(h, j, k), t)

\* ------------------------------------------------- withRetry, continued
\* withRetry call c ends with outcome out; when it is the body of a queued
\* job the queue's continuation runs next, in the same turn.
leave(h, c, out, t) ==
    LET h1 == [h EXCEPT !.rt[c].pc = IF out.tag = "value" THEN "returned" ELSE "thrown",
                        !.rt[c].log = Append(@, IF out.tag = "value" THEN "return" ELSE "throw"),
                        !.rt[c].result = out]
    IN  IF h1.kind[c] = "retry" THEN finish(h1, c, out, t) ELSE h1

\* return await fn(), fn() having fulfilled.
opReturns(h, c, t) == leave(h, c, Val(c), t)

\* Mutant: a job gives its slot back for the time of its backoff sleep.
opThrowsFreesSlot(h, c, e, u, t) ==
    LET h1 == [h EXCEPT !.rt[c].failed = Append(@, e), !.rt[c].log = Append(@, "fail")]
        attempt == h.rt[c].attempt + 1
        h2 == [h1 EXCEPT !.rt[c].attempt = attempt]
        delayMs == Jittered(BaseDelay(Caught[e].serverDelayMs, ExpDelay(attempt)), u)
        h3 == [h2 EXCEPT
                !.rt[c].observed = Append(@, [attempt |-> attempt, delayMs |-> delayMs, err |-> e]),
                !.rt[c].slept = Append(@, delayMs),
                !.rt[c].sleepUntil = t + delayMs,
                !.rt[c].log = @ \o <<"observe", "sleep">>,
                !.rt[c].pc = "backoff"]
    IN  IF ~Caught[e].retry THEN leave(h1, c, Thrown(c, e), t)
        ELSE IF Exhausted(attempt) THEN leave(h2, c, Thrown(c, e), t)
        ELSE IF h3.kind[c] = "retry" THEN pump([h3 EXCEPT !.running = Release(@)], t)
        ELSE h3

\* Mutant: only the first failure is classified; once a retry has been made
\* every later failure is retried while the budget lasts.
opThrowsClassifiesFirstOnly(h, c, e, u, t) ==
    LET h1 == [h EXCEPT !.rt[c].failed = Append(@, e), !.rt[c].log = Append(@, "fail")]
        attempt == h.rt[c].attempt + 1
        h2 == [h1 EXCEPT !.rt[c].attempt = attempt]
        delayMs == Jittered(BaseDelay(Caught[e].serverDelayMs, ExpDelay(attempt)), u)
    IN  IF ~Caught[e].retry /\ h.rt[c].attempt = 0 THEN leave(h1, c, Thrown(c, e), t)
        ELSE IF Exhausted(attempt) THEN leave(h2, c, Thrown(c, e), t)
        ELSE [h2 EXCEPT
                !.rt[c].observed = Append(@, [attempt |-> attempt, delayMs |-> delayMs, err |-> e]),
                !.rt[c].slept = Append(@, delayMs),
                !.rt[c].sleepUntil = t + delayMs,
                !.rt[c].log = @ \o <<"observe", "sleep">>,
                !.rt[c].pc = "backoff"]

\* Mutant: the observer is called before attempt++, and is told the count
\* of the retries made so far.
opThrowsObserveBeforeCount(h, c, e, u, t) ==
    LET h1 == [h EXCEPT !.rt[c].failed = Append(@, e), !.rt[c].log = Append(@, "fail")]
        attempt == h.rt[c].attempt + 1
        h2 == [h1 EXCEPT !.rt[c].attempt = attempt]
        delayMs == Jittered(BaseDelay(Caught[e].serverDelayMs, ExpDelay(attempt)), u)
    IN  IF ~Caught[e].retry THEN leave(h1, c, Thrown(c, e), t)
        ELSE IF Exhausted(attempt) THEN leave(h2, c, Thrown(c, e), t)
        ELSE [h2 EXCEPT
                !.rt[c].observed = Append(@, [attempt |-> attempt - 1, delayMs |-> delayMs, err |-> e]),
                !.rt[c].slept = Append(@, delayMs),
                !.rt[c].sleepUntil = t + delayMs,
                !.rt[c].log = @ \o <<"observe", "sleep">>,
                !.rt[c].pc = "backoff"]

\* catch (err) { ... }: fn() has thrown entry e of ErrorTable; u is the
\* jitter sample.
opThrows(h, c, e, u, t) ==
    LET h1 == [h EXCEPT !.rt[c].failed = Append(@, e), !.rt[c].log = Append(@, "fail")]
        attempt == h.rt[c].attempt + 1
        h2 == [h1 EXCEPT !.rt[c].attempt = attempt]
        delayMs == Jittered(BaseDelay(Caught[e].serverDelayMs, ExpDelay(attempt)), u)
    IN  IF ~Caught[e].retry THEN leave(h1, c, Thrown(c, e), t)
        ELSE IF Exhausted(attempt) THEN leave(h2, c, Thrown(c, e), t)
        ELSE [h2 EXCEPT
                !.rt[c].observed = Append(@, [attempt |-> attempt, delayMs |-> delayMs, err |-> e]),
                !.rt[c].slept = Append(@, delayMs),
                !.rt[c].sleepUntil = t + delayMs,
                !.rt[c].log = @ \o <<"observe", "sleep">>,
                !.rt[c].pc = "backoff"]

\* await sleep(delayMs); continue;
backoffWake(h, c, t) == invoke([h EXCEPT !.rt[c].log = Append(@, "wake")], c, t)

\* --------------------------------------------------------------- actions
\* "async": the body returns a promise that settles later; "throws": the
\* body throws before returning one; "retry": the body is withRetry(call),
\* as runGemini submits it; "direct": withRetry called outside any queue.
BodyKinds == {"async", "throws"}

\* Math.random() * 2 - 1 lies in [-1, 1): the samples tried, in hundredths.
JitterSamples == {-100, 0, 99}

\* runGemini's options.
GeminiOpts ==
    [maxRetries |-> 5, baseDelayMs |-> 1200, maxDelayMs |-> 20000, jitterRatio |-> 25]

\* The options withRetry is tried with.
RetryOptions ==
    {[maxRetries |-> m, baseDelayMs |-> d.base, maxDelayMs |-> d.max, jitterRatio |-> d.jitter] :
        m \in 0..MaxRetries,
        d \in {[base |-> 1200, max |-> 20000, jitter |-> 25],
               [base |-> 100, max |-> 300, jitter |-> 0],
               [base |-> 200, max |-> 1000, jitter |-> 150]}}

\* The environment lets the operation fail this many times in all: enough to
\* use up the retries of a call made directly, MaxFailures for runGemini.
FailureCap(c) == IF kind[c] = "direct" THEN MaxRetries + 1 ELSE MaxFailures

RECURSIVE FailuresUpTo(_)
FailuresUpTo(c) == IF c = 0 THEN 0 ELSE Len(rt[c].failed) + FailuresUpTo(c - 1)
Failures == FailuresUpTo(MaxJobs)

\* The App component as mounted: useState([]), useState(0), useState(null).
AppIdle ==
    /\ images = <<>>
    /\ activeIndex = 0
    /\ zoomingId = 0
    /\ readers = {}
    /\ analyses = {}
    /\ zooms = {}
    /\ nimg = 0
    /\ ncall = 0
    /\ nup = 0

\* Nothing submitted, nothing called yet.
InitIdle ==
    /\ running = 0
    /\ lastStartAt = 0
    /\ queue = <<>>
    /\ now = Epoch
    /\ nsub = 0
    /\ kind = [j \in Jobs |-> "async"]
    /\ jst = [j \in Jobs |-> "none"]
    /\ wakeAt = [j \in Jobs |-> 0]
    /\ handle = [j \in Jobs |-> PendingHandle]
    /\ body = [j \in Jobs |-> NoOutcome]
    /\ starts = <<>>
    /\ rt = [j \in Jobs |-> IdleRetry]
    /\ calls = <<>>
    /\ AppIdle

\* No function is applied on its own.
InitCommon ==
    /\ arg = <<>>
    /\ ret = {}
    /\ InitIdle

\* new ThrottleQueue(concurrency, minTimeMs): any arguments are taken.
Init ==
    /\ concurrency \in 0..MaxConcurrency
    /\ minTimeMs \in 0..MaxMinTime
    /\ opts = GeminiOpts
    /\ InitCommon

\* A caller submits the next job, the n-th at most.
Submit(n) ==
    /\ nsub < n
    /\ \E k \in BodyKinds : Commit(schedule(Heap, nsub + 1, k, now))
    /\ nsub' = nsub + 1
    /\ UNCHANGED <<appVars, arg, ret, concurrency, minTimeMs, now, opts>>

Schedule == Submit(MaxJobs)

\* The pacing timer of job j fires (no earlier than it is due).
Wake ==
    /\ \E j \in Jobs :
        /\ jst[j] = "sleeping"
        /\ now >= wakeAt[j]
        /\ Commit(startJob(Heap, j, now))
    /\ UNCHANGED <<appVars, arg, ret, concurrency, minTimeMs, now, nsub, opts>>

\* The promise returned by the body of job j settles.
Complete ==
    /\ \E j \in Jobs, ok \in BOOLEAN :
        /\ jst[j] = "running"
        /\ kind[j] = "async"
        /\ Commit(finish(Heap, j, IF ok THEN Val(j) ELSE Err(j), now))
    /\ UNCHANGED <<appVars, arg, ret, concurrency, minTimeMs, now, nsub, opts>>

\* The timers not yet fired.
Deadlines ==
    {wakeAt[j] : j \in {i \in Jobs : jst[i] = "sleeping"}}
        \cup {rt[c].sleepUntil : c \in {i \in Jobs : rt[i].pc = "backoff"}}

\* Time passes: by one unit, or up to a pending timer's due time.
Tick ==
    /\ \E t \in {now + 1} \cup Deadlines :
        /\ t > now
        /\ t <= Epoch + Horizon \/ t \in Deadlines
        /\ now' = t
    /\ UNCHANGED <<appVars, arg, ret, concurrency, minTimeMs, running, lastStartAt, queue,
                   nsub, kind, jst, wakeAt, handle, body, starts, opts, rt, calls>>

Next == Schedule \/ Wake \/ Complete \/ Tick

Spec == Init /\ [][Next]_vars

\* ------------------------------------------------- ThrottleQueue: claims
Dequeued(j) == jst[j] \in {"sleeping", "running", "done"}
InFlight == {j \in Jobs : jst[j] \in {"sleeping", "running"}}

\* C1: with concurrency N >= 1, 0 <= running <= N, at most N jobs are
\* dequeued and not yet completed, and a job submitted after the first N is
\* dequeued only once one of the first N has completed.
C1_BoundedConcurrency ==
    concurrency >= 1 =>
        /\ 0 <= running
        /\ running <= concurrency
        /\ Cardinality(InFlight) <= concurrency
        /\ \A j \in Jobs :
            (j > concurrency /\ Dequeued(j)) => \E i \in 1..concurrency : jst[i] = "done"

\* Two slots, both taken, the third job dequeued after a completion.
C1_Witness ==
    /\ concurrency = 2
    /\ Dequeued(3)
    /\ Cardinality(InFlight) = 2
    /\ running = 2

\* C2: with concurrency >= 1, any two consecutively started jobs start at
\* least minTimeMs apart, whatever slots they occupy.
C2_StartsSpaced ==
    concurrency >= 1 =>
        \A i \in 2..Len(starts) : starts[i].at - starts[i - 1].at >= minTimeMs

\* C4: with concurrency = 1 the bodies are invoked in submission order.
C4_FifoSingleSlot ==
    concurrency = 1 => \A i \in 1..Len(starts) : starts[i].job = i

\* Three jobs started through the single slot, the later ones from the queue.
C4_Witness ==
    /\ concurrency = 1
    /\ Len(starts) = 3
    /\ \E i \in 1..Len(starts) : starts[i].at > Epoch

\* A handle shows what its own job's body produced, and nothing else.
HandleFollowsBody(j) ==
    /\ body[j].from \in {0, j}
    /\ body[j].tag = "none" => handle[j].state = "pending"
    /\ body[j].tag = "value" => handle[j].state = "resolved" /\ handle[j].value = body[j]
    /\ body[j].tag = "error" => handle[j].state = "rejected" /\ handle[j].value = body[j]

\* C5: a failing body rejects only its own handle, with its own error; every
\* handle follows its own job's outcome; and a failed job gives its slot
\* back and has the next pending job dispatched: the slots taken are those
\* of the jobs dequeued and not ended, and no job waits while a slot is free.
C5_FailureIsolated ==
    /\ \A j \in Jobs : HandleFollowsBody(j)
    /\ \A j \in Jobs : body[j].tag = "none" <=> jst[j] # "done"
    /\ running = Cardinality(InFlight)
    /\ queue # <<>> => running >= concurrency

\* The first job failed, the second succeeded, the third got the slot.
C5_Witness ==
    /\ concurrency = 1
    /\ handle[1].state = "rejected"
    /\ handle[2].state = "resolved"
    /\ jst[3] = "running"

\* C6: resolve or reject is called once for a job whose body has ended,
\* with that job's own value or error, and not at all before.
C6_SettlesOnce ==
    \A j \in Jobs :
        /\ handle[j].calls = (IF jst[j] = "done" THEN 1 ELSE 0)
        /\ jst[j] # "done" => handle[j].state = "pending"
        /\ jst[j] = "done" =>
            /\ handle[j].state # "pending"
            /\ handle[j].value = body[j]
            /\ handle[j].value.from = j
            /\ (handle[j].state = "resolved") = (body[j].tag = "value")

\* One handle resolved and one rejected while a third job is still running.
C6_Witness ==
    /\ \E i, j, k \in Jobs :
        /\ handle[i].state = "resolved" /\ handle[i].calls = 1
        /\ handle[j].state = "rejected" /\ handle[j].calls = 1
        /\ jst[k] = "running" /\ handle[k].calls = 0

\* The queue under fairness: time passes, the event loop runs the callback
\* of a due timer, and (the claim's premise) every body ends. One job fewer
\* is submitted than in Spec, to keep the search for cycles short.
ScheduleFew == Submit(MaxJobs - 1)

FairNext == ScheduleFew \/ Wake \/ Complete \/ Tick

FairSpec ==
    Init /\ [][FairNext]_vars /\ WF_vars(Tick) /\ WF_vars(Wake) /\ WF_vars(Complete)

\* C7: with concurrency >= 1, every job submitted has its handle settled in
\* the end, when bodies complete and timers fire. Jobs are submitted
\* finitely often and a settled handle stays settled, so this is: again and
\* again, every job submitted so far is settled.
C7_EveryHandleSettles ==
    []<>(concurrency >= 1 =>
            \A j \in Jobs : jst[j] # "none" => handle[j].state # "pending")

\* Two jobs went through a single slot, the second from the queue and
\* through a pacing wait, and both handles are settled.
C7_Witness ==
    /\ concurrency = 1
    /\ minTimeMs > 0
    /\ \A j \in 1..2 : jst[j] = "done" /\ handle[j].state # "pending"
    /\ starts[2].at > starts[1].at

\* C8: a queue with a non-positive concurrency does not exist, so no job is
\* ever accepted by one.
C8_NonPositiveConcurrencyRejected ==
    \A j \in Jobs : jst[j] # "none" => concurrency >= 1

\* C16: schedule(fn) never throws and never refuses a job: in any state of
\* the queue, every slot taken or not, the body throwing before it returns a
\* promise or not, the job is appended at the tail, a handle is returned,
\* and the only failure to be seen is the rejection of that handle.
C16_ScheduleAlwaysAccepts ==
    /\ [](nsub < MaxJobs => ENABLED Schedule)
    /\ [][nsub' = nsub + 1 =>
            LET j == nsub'
            IN  /\ jst'[j] # "none"
                /\ \/ queue' = Append(queue, j) /\ jst'[j] = "queued"
                   \/ /\ queue = <<>> /\ queue' = <<>>
                      /\ jst'[j] \in {"sleeping", "running", "done"}
                /\ running >= concurrency =>
                        /\ queue' = Append(queue, j)
                        /\ handle'[j] = PendingHandle
                        /\ running' = running
                        /\ starts' = starts
                /\ jst'[j] \in {"queued", "sleeping", "running"} =>
                        handle'[j] = PendingHandle
                /\ jst'[j] = "done" =>
                        /\ kind'[j] = "throws"
                        /\ handle'[j] = [state |-> "rejected", value |-> Err(j), calls |-> 1]
                        /\ running' = running
                /\ \A i \in Jobs \ {j} : handle'[i] = handle[i] /\ jst'[i] = jst[i]
       ]_vars

\* A job whose body throws before returning a promise has been accepted at
\* the tail while every slot was taken.
C16_Witness ==
    \E j \in Jobs :
        /\ concurrency >= 1
        /\ running = concurrency
        /\ Len(queue) >= 2
        /\ queue[Len(queue)] = j
        /\ kind[j] = "throws"
        /\ handle[j] = PendingHandle

\* C17: for any concurrency >= 1, job bodies are invoked in submission
\* order: a job submitted before another has its body invoked first,
\* whatever the order of timer wake-ups and completions.
C17_StartsInSubmissionOrder ==
    concurrency >= 1 =>
        \A i, k \in 1..Len(starts) : i < k => starts[i].job < starts[k].job

\* C18: with concurrency = 1, whatever minTimeMs = D, the submissions and
\* the durations of the jobs, each job start after the first comes at least
\* D after the previous start, lastStartAt being the instant of the latest
\* start.
C18_SingleSlotStartsSpaced ==
    concurrency = 1 =>
        /\ \A i \in 2..Len(starts) : starts[i].at - starts[i - 1].at >= minTimeMs
        /\ starts # <<>> => lastStartAt = starts[Len(starts)].at

\* Three jobs have started one after the other, the second exactly D > 0
\* after the first, the third later than D after the second.
C18_Witness ==
    /\ concurrency = 1
    /\ minTimeMs > 0
    /\ Len(starts) = 3
    /\ starts[2].at - starts[1].at = minTimeMs
    /\ starts[3].at - starts[2].at > minTimeMs

\* The place of job j in a sequence of starts (0 when it has not started).
StartIndex(ss, j) ==
    IF \E i \in 1..Len(ss) : ss[i].job = j
    THEN CHOOSE i \in 1..Len(ss) : ss[i].job = j
    ELSE 0

\* The instant of the latest start among the first n of ss; 0, the initial
\* lastStartAt, when n = 0.
StartBefore(ss, n) == IF n = 0 THEN 0 ELSE ss[n].at

\* C19: pacing runs from the previous start, not the previous completion:
\* a job taken from the queue waits exactly
\* max(0, minTimeMs - (now - lastStartAt)), lastStartAt being the instant of
\* the latest start before its dequeue; so with concurrency = 1 a job
\* dequeued minTimeMs or more after the previous start has its body invoked
\* at once.
C19_WaitFromPreviousStart ==
    [][\A j \in Jobs :
        (jst[j] \in {"none", "queued"} /\ jst'[j] \in {"sleeping", "running", "done"}) =>
            LET n == StartIndex(starts', j)
                previous == IF n = 0 THEN StartBefore(starts', Len(starts'))
                            ELSE StartBefore(starts', n - 1)
                wait == Max(0, minTimeMs - (now - previous))
            IN  /\ wait > 0 => /\ jst'[j] = "sleeping"
                               /\ wakeAt'[j] = now + wait
                               /\ n = 0
                /\ wait = 0 => /\ jst'[j] \in {"running", "done"}
                               /\ n > 0
                               /\ starts'[n].at = now
                /\ (concurrency = 1 /\ now - previous >= minTimeMs) =>
                        n > 0 /\ starts'[n].at = now /\ wakeAt'[j] = 0
      ]_vars

\* One slot and D > 0: the first job ran for longer than D, and the second,
\* taken from the queue when the first ended, was invoked without a wait.
C19_Witness ==
    /\ concurrency = 1
    /\ minTimeMs > 0
    /\ Len(starts) >= 2
    /\ kind[starts[1].job] = "async"
    /\ starts[2].at - starts[1].at > minTimeMs
    /\ wakeAt[starts[2].job] = 0
    /\ wakeAt[starts[1].job] = 0

\* The heaps pump() is called on from the present state: the present one,
\* the one schedule() makes by pushing a job, and the one the finally block
\* makes when the body of a running job ends.
PumpInputs ==
    {Heap}
        \cup {push(Heap, nsub + 1, k) : k \in {x \in BodyKinds : nsub < MaxJobs}}
        \cup {ended(Heap, j, out) :
                j \in {i \in Jobs : jst[i] = "running" /\ kind[i] = "async"},
                out \in {Val(i) : i \in Jobs} \cup {Err(i) : i \in Jobs}}

\* The jobs that pump has taken from the queue of h, r being its result.
TakenBy(h, r) == {i \in Jobs : h.jst[i] = "queued" /\ r.jst[i] # "queued"}

\* C20: pump() called while running = concurrency, or while the queue is
\* empty, changes nothing: running, lastStartAt and the queue stay as they
\* are, no body is invoked, no handle is settled. A pass that goes on takes
\* exactly the head from the queue and adds exactly one to running; when the
\* body it invokes throws at once, the slot is given back and the next pass
\* runs in the same turn, so that over the turn the entries gone are the
\* jobs taken, from the head, and running grows by those still in flight.
C20_PumpFrame ==
    \A h \in PumpInputs :
        LET r == pump(h, now)
        IN  IF h.running = concurrency \/ h.queue = <<>>
            THEN r = h
            ELSE LET j == Head(h.queue)
                 IN  /\ j \in TakenBy(h, r)
                     /\ r.jst[j] \in {"sleeping", "running"} =>
                            /\ r.queue = Tail(h.queue)
                            /\ r.running = h.running + 1
                            /\ r.handle = h.handle
                            /\ TakenBy(h, r) = {j}
                     /\ r.jst[j] = "done" => h.kind[j] = "throws"
                     /\ Len(r.queue) = Len(h.queue) - Cardinality(TakenBy(h, r))
                     /\ r.queue = SubSeq(h.queue, Cardinality(TakenBy(h, r)) + 1, Len(h.queue))
                     /\ r.running = h.running
                            + Cardinality({i \in TakenBy(h, r) : r.jst[i] # "done"})

\* Both slots are taken and a job waits: pump() called now does nothing,
\* and called when one of the running bodies ends it takes the head.
C20_Witness ==
    /\ concurrency = 2
    /\ running = concurrency
    /\ queue # <<>>
    /\ pump(Heap, now) = Heap
    /\ \E j \in Jobs :
        /\ jst[j] = "running" /\ kind[j] = "async"
        /\ pump(ended(Heap, j, Val(j)), now).queue = Tail(queue)

\* C21: work conservation. In every state between two events, a job waits
\* in the queue only while running = concurrency: a free slot and a waiting
\* job never coexist, and while a job waits with concurrency >= 1 some job
\* holds a slot, whose end will call pump().
C21_WorkConserving ==
    /\ queue # <<>> => running = concurrency
    /\ \A j \in Jobs : jst[j] = "queued" <=> \E i \in 1..Len(queue) : queue[i] = j
    /\ (queue # <<>> /\ concurrency >= 1) => InFlight # {}

\* A job has ended, the job behind it took its slot at once, and another
\* still waits.
C21_Witness ==
    /\ concurrency >= 1
    /\ \E j \in Jobs : jst[j] = "done" /\ kind[j] = "async"
    /\ running = concurrency
    /\ queue # <<>>

\* C22: the clock not going back, lastStartAt never decreases, for any
\* concurrency and any order in which sleeping jobs wake; it is written
\* only when a body is invoked, with the instant of that invocation, and
\* every invocation writes it.
C22_LastStartMonotone ==
    [][/\ now' >= now
       /\ lastStartAt' >= lastStartAt
       /\ lastStartAt' # lastStartAt =>
            /\ Len(starts') > Len(starts)
            /\ lastStartAt' = now
       /\ Len(starts') > Len(starts) =>
            /\ lastStartAt' = now
            /\ starts'[Len(starts')].at = lastStartAt'
      ]_vars

\* Two slots: a job that slept out its pacing wait was invoked after a job
\* submitted later, and lastStartAt is the instant of the latest invocation.
C22_Witness ==
    /\ concurrency = 2
    /\ Len(starts) = 3
    /\ starts[2].job > starts[3].job
    /\ wakeAt[starts[3].job] > 0
    /\ starts[3].at > wakeAt[starts[3].job]
    /\ lastStartAt = starts[3].at
    /\ lastStartAt > starts[1].at

\* ------------------------------------------------- withRetry on its own
InitRetry ==
    /\ concurrency = LimiterConcurrency
    /\ minTimeMs = LimiterMinTimeMs
    /\ opts \in RetryOptions
    /\ InitCommon

\* withRetry(fn, opts) is called, outside any queue.
CallWithRetry ==
    /\ nsub = 0
    /\ nsub' = nsub + 1
    /\ Commit(withRetry([Heap EXCEPT !.kind[nsub + 1] = "direct"], nsub + 1, now))
    /\ UNCHANGED <<appVars, arg, ret, concurrency, minTimeMs, now, opts>>

\* The operation's promise fulfils.
OpReturns ==
    /\ \E c \in Jobs :
        /\ rt[c].pc = "calling"
        /\ Commit(opReturns(Heap, c, now))
    /\ UNCHANGED <<appVars, arg, ret, concurrency, minTimeMs, now, nsub, opts>>

\* The operation throws, or its promise rejects.
OpThrows ==
    /\ \E c \in Jobs, e \in ErrorIds, u \in JitterSamples :
        /\ rt[c].pc = "calling"
        /\ Failures < FailureCap(c)
        /\ Commit(opThrows(Heap, c, e, u, now))
    /\ UNCHANGED <<appVars, arg, ret, concurrency, minTimeMs, now, nsub, opts>>

\* The backoff timer of call c fires (no earlier than it is due).
BackoffWake ==
    /\ \E c \in Jobs :
        /\ rt[c].pc = "backoff"
        /\ now >= rt[c].sleepUntil
        /\ Commit(backoffWake(Heap, c, now))
    /\ UNCHANGED <<appVars, arg, ret, concurrency, minTimeMs, now, nsub, opts>>

NextRetry == CallWithRetry \/ OpReturns \/ OpThrows \/ BackoffWake \/ Tick

SpecRetry == InitRetry /\ [][NextRetry]_vars

\* --------------------------------------------------- withRetry: claims
\* The invocations of the operation made by call c, in order.
CallsOf(c) == SelectSeq(calls, LAMBDA x : x.call = c)

AllRetryable(es) == \A i \in 1..Len(es) : Caught[es[i]].retry

\* C9: when every invocation fails with a retryable error, withRetry
\* rejects after maxRetries + 1 invocations and maxRetries observer calls,
\* with the error the operation raised last, itself.
C9_BudgetExhausted ==
    \A c \in Jobs :
        (rt[c].pc = "thrown" /\ AllRetryable(rt[c].failed)) =>
            /\ Len(CallsOf(c)) = opts.maxRetries + 1
            /\ Len(rt[c].failed) = opts.maxRetries + 1
            /\ Len(rt[c].observed) = opts.maxRetries
            /\ rt[c].result = Thrown(c, rt[c].failed[Len(rt[c].failed)])

\* maxRetries = 2: three retryable failures, not all the same error, then
\* the rejection.
C9_Witness ==
    \E c \in Jobs :
        /\ opts.maxRetries = 2
        /\ rt[c].pc = "thrown"
        /\ Len(rt[c].failed) = 3
        /\ AllRetryable(rt[c].failed)
        /\ rt[c].failed[1] # rt[c].failed[3]

\* The substrings that make a message retryable.
RetryableSubstrings ==
    {LitResourceExhausted, LitQuota, LitRateLimit, LitNetwork, LitFetch, LitTimeout}

\* The errors with no recognizable 429 status and a message that holds none
\* of the retryable substrings.
PlainErrors ==
    {e \in ErrorIds :
        LET err == ErrorTable[e]
        IN  /\ 429 \notin err.status \cup err.code \cup err.respStatus
            /\ ~\E i \in 1..Len(err.message) : StatusTextAt(err.message, i, 1)
            /\ \A lit \in RetryableSubstrings : ~includes(toLowerCase(err.message), lit)}

\* C10: when the operation fails with such an error, withRetry rejects with
\* that error after one invocation, no observer call and no sleep, whatever
\* maxRetries is.
C10_TerminalAtOnce ==
    \A c \in Jobs :
        (rt[c].failed # <<>> /\ rt[c].failed[1] \in PlainErrors) =>
            /\ rt[c].pc = "thrown"
            /\ rt[c].result = Thrown(c, rt[c].failed[1])
            /\ Len(CallsOf(c)) = 1
            /\ rt[c].observed = <<>>
            /\ rt[c].slept = <<>>
            /\ rt[c].attempt = 0

\* A mined status of 503 and retries left: rejected at once all the same.
C10_Witness ==
    \E c \in Jobs :
        /\ opts.maxRetries = 2
        /\ rt[c].pc = "thrown"
        /\ rt[c].failed # <<>>
        /\ rt[c].failed[1] \in PlainErrors
        /\ extractStatusCode(ErrorTable[rt[c].failed[1]]) = {503}

\* C13: every delay withRetry sleeps and reports to the observer is an
\* integer of at least 250 ms, whatever the jitter sample and the options (a
\* jitter ratio above 1, a small baseDelayMs), and every attempt it reports
\* is an integer between 1 and maxRetries.
C13_DelayAndAttemptRanges ==
    \A c \in Jobs :
        /\ Len(rt[c].slept) = Len(rt[c].observed)
        /\ \A i \in 1..Len(rt[c].observed) :
            LET o == rt[c].observed[i]
            IN  /\ o.delayMs \in Int
                /\ o.delayMs >= 250
                /\ rt[c].slept[i] = o.delayMs
                /\ o.attempt \in Int
                /\ 1 <= o.attempt
                /\ o.attempt <= opts.maxRetries

\* A jitter ratio of 1.5 and a 14 s hint: the lowest jitter sample takes the
\* delay below zero, and 250 ms is slept and reported.
C13_Witness ==
    \E c \in Jobs :
        /\ opts.jitterRatio > 100
        /\ Len(rt[c].observed) >= 1
        /\ ErrorTable[rt[c].failed[1]].message = MsgExhausted
        /\ rt[c].observed[1].delayMs = 250
        /\ rt[c].slept[1] = 250
        /\ rt[c].observed[1].attempt = 1

\* withRetry under the claim's premises: every invocation of the operation
\* completes, every sleep ends, time passes.
FairSpecRetry ==
    /\ InitRetry
    /\ [][NextRetry]_vars
    /\ WF_vars(OpReturns \/ OpThrows)
    /\ WF_vars(BackoffWake)
    /\ WF_vars(Tick)

\* The failures among es (entries of ErrorTable) that are retryable.
RetryableCount(es) ==
    Cardinality({i \in 1..Len(es) : es[i] \notin PlainErrors})

\* C14: when every invocation of the operation completes and every sleep
\* ends, a call of withRetry ends (returns or throws) for every maxRetries
\* >= 0: it is not left calling or backing off for ever; it has seen at most
\* maxRetries + 1 failures; attempt grows by exactly one on each retryable
\* failure and by nothing else.
C14_Terminates ==
    /\ [](\A c \in Jobs :
            /\ Len(rt[c].failed) <= opts.maxRetries + 1
            /\ rt[c].attempt = RetryableCount(rt[c].failed))
    /\ [][\A c \in Jobs :
            \/ rt'[c].attempt = rt[c].attempt
            \/ /\ rt'[c].attempt = rt[c].attempt + 1
               /\ Len(rt'[c].failed) = Len(rt[c].failed) + 1]_vars
    /\ []<>(\A c \in Jobs : rt[c].pc \in {"idle", "returned", "thrown"})

\* The whole budget is used on retryable failures and the call has ended.
C14_Witness ==
    \E c \in Jobs :
        /\ opts.maxRetries = MaxRetries
        /\ Len(rt[c].failed) = opts.maxRetries + 1
        /\ rt[c].attempt = opts.maxRetries + 1
        /\ rt[c].pc = "thrown"

\* C15: when the first invocation of the operation succeeds, withRetry
\* returns that result after exactly one invocation, without calling the
\* observer and without sleeping.
C15_FirstSuccess ==
    \A c \in Jobs :
        (rt[c].pc = "returned" /\ rt[c].failed = <<>>) =>
            /\ rt[c].result = Val(c)
            /\ Len(CallsOf(c)) = 1
            /\ rt[c].observed = <<>>
            /\ rt[c].slept = <<>>
            /\ rt[c].attempt = 0

\* The first invocation has succeeded, some time after it was made.
C15_Witness ==
    \E c \in Jobs :
        /\ rt[c].pc = "returned"
        /\ rt[c].failed = <<>>
        /\ Len(CallsOf(c)) = 1
        /\ now > CallsOf(c)[1].at

\* What a call of withRetry does when the operation fails k times with a
\* retryable error and then succeeds.
RECURSIVE RetriedThenReturned(_)
RetriedThenReturned(k) ==
    IF k = 0 THEN <<"invoke", "return">>
    ELSE <<"invoke", "fail", "observe", "sleep", "wake">> \o RetriedThenReturned(k - 1)

\* C23: when the operation fails k times with retryable errors
\* (0 <= k <= maxRetries) and then succeeds, withRetry returns that value
\* after exactly k + 1 invocations; the observer is called k times, with
\* attempt = 1, ..., k in that order, each call after the failure it reports
\* and before the sleep of the delay it reports, and the operation is not
\* invoked again until that sleep is over.
C23_RetriesThenSuccess ==
    \A c \in Jobs :
        rt[c].pc = "returned" =>
            LET k == Len(rt[c].failed)
            IN  /\ k <= opts.maxRetries
                /\ \A i \in 1..k : rt[c].failed[i] \notin PlainErrors
                /\ rt[c].result = Val(c)
                /\ Len(CallsOf(c)) = k + 1
                /\ Len(rt[c].observed) = k
                /\ Len(rt[c].slept) = k
                /\ \A i \in 1..k :
                    /\ rt[c].observed[i].attempt = i
                    /\ rt[c].observed[i].err = rt[c].failed[i]
                    /\ rt[c].slept[i] = rt[c].observed[i].delayMs
                    /\ CallsOf(c)[i + 1].at - CallsOf(c)[i].at >= rt[c].slept[i]
                /\ rt[c].log = RetriedThenReturned(k)

\* Two retryable failures, not the same error, and then the success.
C23_Witness ==
    \E c \in Jobs :
        /\ rt[c].pc = "returned"
        /\ Len(rt[c].failed) = 2
        /\ rt[c].failed[1] # rt[c].failed[2]
        /\ Len(CallsOf(c)) = 3

\* C24: each failure is classified on its own. When an invocation fails
\* with a non-retryable error, however many retryable failures were retried
\* before it and whatever is left of the budget, withRetry rejects with that
\* error at once: no observer call, no sleep and no invocation follow it.
C24_TerminalAfterRetries ==
    \A c \in Jobs :
        \A n \in 1..Len(rt[c].failed) :
            rt[c].failed[n] \in PlainErrors =>
                /\ n = Len(rt[c].failed)
                /\ rt[c].pc = "thrown"
                /\ rt[c].result = Thrown(c, rt[c].failed[n])
                /\ Len(CallsOf(c)) = n
                /\ Len(rt[c].observed) = n - 1
                /\ Len(rt[c].slept) = n - 1
                /\ rt[c].attempt = n - 1
                /\ SubSeq(rt[c].log, Len(rt[c].log) - 2, Len(rt[c].log))
                        = <<"invoke", "fail", "throw">>

\* One retryable failure was retried, the next failure was not retryable,
\* and the call was rejected with a retry left.
C24_Witness ==
    \E c \in Jobs :
        /\ opts.maxRetries = 2
        /\ Len(rt[c].failed) = 2
        /\ rt[c].failed[1] \notin PlainErrors
        /\ rt[c].failed[2] \in PlainErrors
        /\ rt[c].attempt = 1
        /\ rt[c].pc = "thrown"

\* ------------------------------------------------------------ runGemini
InitGemini ==
    /\ concurrency = LimiterConcurrency
    /\ minTimeMs = LimiterMinTimeMs
    /\ opts = GeminiOpts
    /\ InitCommon

\* runGemini(call): limiter.schedule(() => withRetry(call, {...}))
RunGemini ==
    /\ nsub < MaxCalls
    /\ Commit(schedule(Heap, nsub + 1, "retry", now))
    /\ nsub' = nsub + 1
    /\ UNCHANGED <<appVars, arg, ret, concurrency, minTimeMs, now, opts>>

NextGemini == RunGemini \/ Wake \/ OpReturns \/ OpThrows \/ BackoffWake \/ Tick

SpecGemini == InitGemini /\ [][NextGemini]_vars

\* The calls whose retry loop has begun and not ended.
InRetryLoop == {c \in Jobs : rt[c].pc \in {"calling", "backoff"}}

\* C27: in runGemini, the limiter having one slot, a job keeps its slot for
\* its whole retry loop, backoff sleeps included: at most one remote call is
\* in flight at any instant, and a call submitted later makes its first
\* attempt only once the retry loop of every earlier call has ended,
\* returned or thrown.
C27_SlotKeptThroughRetries ==
    /\ Cardinality(InRetryLoop) <= 1
    /\ Cardinality({c \in Jobs : rt[c].pc = "calling"}) <= 1
    /\ \A c \in InRetryLoop : jst[c] = "running" /\ running = 1
    /\ \A c, d \in Jobs :
        (c < d /\ CallsOf(d) # <<>>) =>
            /\ rt[c].pc \in {"returned", "thrown"}
            /\ jst[c] = "done"
            /\ CallsOf(d)[1].at >= CallsOf(c)[Len(CallsOf(c))].at

\* The first call sleeps before a retry while the second, submitted since,
\* waits in the queue for the slot.
C27_Witness ==
    /\ rt[1].pc = "backoff"
    /\ jst[1] = "running"
    /\ jst[2] = "queued"
    /\ rt[2].pc = "idle"
    /\ now > starts[1].at

\* C3 as stated: any two consecutive invocations of the remote call, a retry
\* included, begin at least the limiter's minTimeMs apart.
C3_EveryAttemptPaced ==
    \A i \in 2..Len(calls) : calls[i].at - calls[i - 1].at >= LimiterMinTimeMs

\* C3, amended: the queue paces the starts of jobs, that is the first
\* attempts of the calls, at least minTimeMs apart; a retry begins no sooner
\* than the backoff delay reported to the observer (at least 250 ms) after
\* the attempt before it, and the queue does not pace it.
C3_JobStartsPaced ==
    /\ \A i \in 2..Len(starts) : starts[i].at - starts[i - 1].at >= LimiterMinTimeMs
    /\ \A i \in 1..Len(starts) :
        \E n \in 1..Len(calls) : calls[n] = [call |-> starts[i].job, at |-> starts[i].at]
    /\ \A c \in Jobs :
        \A k \in 2..Len(CallsOf(c)) :
            /\ k - 1 <= Len(rt[c].observed)
            /\ rt[c].observed[k - 1].delayMs >= MinDelayMs
            /\ CallsOf(c)[k].at - CallsOf(c)[k - 1].at >= rt[c].observed[k - 1].delayMs

\* A retry begun less than 1400 ms after the attempt before it, and a
\* second call started after the first.
C3_Witness ==
    /\ Len(starts) = 2
    /\ \E i \in 2..Len(calls) :
        /\ calls[i].call = calls[i - 1].call
        /\ calls[i].at - calls[i - 1].at < LimiterMinTimeMs

\* ------------------------------------------------ shouldRetry on its own
\* "Quota exceeded"
MsgQuota == <<"Q", "u", "o", "t", "a", " ", "e", "x", "c", "e", "e", "d", "e", "d">>
\* "Rate Limit hit"
MsgRateLimit == <<"R", "a", "t", "e", " ", "L", "i", "m", "i", "t", " ", "h", "i", "t">>
\* "Network down"
MsgNetwork == <<"N", "e", "t", "w", "o", "r", "k", " ", "d", "o", "w", "n">>
\* "Timeout"
MsgTimeout == <<"T", "i", "m", "e", "o", "u", "t">>
\* "HTTP (429)"
MsgHttp429 == <<"H", "T", "T", "P", " ", "(", "4", "2", "9", ")">>
\* "rate-limit time out"
MsgNearMiss == <<"r", "a", "t", "e", "-", "l", "i", "m", "i", "t", " ", "t", "i", "m", "e", " ", "o", "u", "t">>
\* "code4290"
MsgGlued429 == <<"c", "o", "d", "e", "4", "2", "9", "0">>
\* ""
MsgEmpty == <<>>
\* The messages a failure is classified with: each substring shouldRetry
\* looks for, in some letter case, the near misses, and statuses inside text.
ClassifyMessages ==
    {MsgInvalid, MsgExhausted, MsgQuota, MsgRateLimit, MsgNetwork, MsgFetch,
     MsgTimeout, MsgUnavailable, MsgHttp429, MsgNearMiss, MsgGlued429, MsgEmpty}

\* The error objects a failure is classified with: every combination of the
\* optional numeric fields extractStatusCode and shouldRetry read.
ClassifyInputs ==
    [status : {{}, {429}, {503}},
     code : {{}, {429}, {500}},
     respStatus : {{}, {429}, {500}},
     message : ClassifyMessages]

InitClassify ==
    /\ concurrency = LimiterConcurrency
    /\ minTimeMs = LimiterMinTimeMs
    /\ opts = GeminiOpts
    /\ InitIdle
    /\ arg \in ClassifyInputs
    /\ ret = {}

\* The catch block of withRetry classifies the error it caught:
\*   const status = extractStatusCode(err); const msg = String(err?.message ?? err);
\*   shouldRetry(status, msg, err)
Classify ==
    /\ ret = {}
    /\ ret' = {shouldRetry(extractStatusCode(arg), arg.message, arg)}
    /\ UNCHANGED <<appVars, arg, concurrency, minTimeMs, running, lastStartAt, queue, now,
                   nsub, kind, jst, wakeAt, handle, body, starts, opts, rt, calls>>

NextClassify == Classify

SpecClassify == InitClassify /\ [][NextClassify]_vars

\* The lowercased message contains one of the substrings the claim lists.
NamesRetryableCause(message) ==
    \E lit \in RetryableSubstrings : includes(toLowerCase(message), lit)

\* C11: a failure is classified retryable if and only if its extracted
\* status is 429, or its lowercased message contains one of
\* resource_exhausted, quota, rate limit, network, fetch, timeout, or its
\* nested response status is 429; any other failure, one with an extracted
\* status of 500, 502, 503 or 504 and no such substring included, is terminal.
C11_RetryableIff ==
    \A retryable \in ret :
        /\ retryable <=> \/ extractStatusCode(arg) = {429}
                         \/ NamesRetryableCause(arg.message)
                         \/ arg.respStatus = {429}
        /\ ( /\ extractStatusCode(arg) \in {{500}, {502}, {503}, {504}}
             /\ ~NamesRetryableCause(arg.message)
             /\ arg.respStatus # {429} ) => ~retryable

\* A failure whose only status is a 503 found in its message is classified
\* terminal.
C11_Witness ==
    /\ ret = {FALSE}
    /\ arg.status = {} /\ arg.code = {} /\ arg.respStatus = {}
    /\ arg.message = MsgUnavailable
    /\ extractStatusCode(arg) = {503}

\* --------------------------------------------- the retry delay on its own
\* "retry after 2s"
MsgRetryAfterSeconds == <<"r", "e", "t", "r", "y", " ", "a", "f", "t", "e", "r", " ", "2", "s">>
\* "retryAfter: 500"
MsgRetryAfterMs == <<"r", "e", "t", "r", "y", "A", "f", "t", "e", "r", ":", " ", "5", "0", "0">>

\* The messages a delay is computed for, each with the delay the server
\* advises in it, in milliseconds (empty when it advises none).
DelayMessages ==
    { [message |-> MsgExhausted,         advised |-> {14000}],
      [message |-> MsgRetryAfterSeconds, advised |-> {2000}],
      [message |-> MsgRetryAfterMs,      advised |-> {500}],
      [message |-> MsgTooMany,           advised |-> {}],
      [message |-> MsgFetch,             advised |-> {}] }

\* The options a delay is computed under: runGemini's, a small cap, a jitter
\* ratio above 1, and a base close to the cap; maxRetries is the default.
DelayOptions ==
    { GeminiOpts,
      [maxRetries |-> 5, baseDelayMs |-> 100,  maxDelayMs |-> 300,   jitterRatio |-> 0],
      [maxRetries |-> 5, baseDelayMs |-> 200,  maxDelayMs |-> 1000,  jitterRatio |-> 150],
      [maxRetries |-> 5, baseDelayMs |-> 8000, maxDelayMs |-> 10000, jitterRatio |-> 25] }

InitDelay ==
    /\ concurrency = LimiterConcurrency
    /\ minTimeMs = LimiterMinTimeMs
    /\ opts \in DelayOptions
    /\ InitIdle
    /\ arg \in [attempt : 1..opts.maxRetries, hint : DelayMessages, u : JitterSamples]
    /\ ret = {}

\* The catch block of withRetry computes the delay of retry arg.attempt:
\*   serverDelayMs = parseRetryDelayMs(msg); exp = ...;
\*   delayMs = Math.max(serverDelayMs ?? 0, exp); then the jitter and the floor.
ComputeDelay ==
    /\ ret = {}
    /\ LET serverDelayMs == parseRetryDelayMs(arg.hint.message)
           exp == ExpDelay(arg.attempt)
           base == BaseDelay(serverDelayMs, exp)
       IN  ret' = {[serverDelayMs |-> serverDelayMs, exp |-> exp, base |-> base,
                    delayMs |-> Jittered(base, arg.u)]}
    /\ UNCHANGED <<appVars, arg, concurrency, minTimeMs, running, lastStartAt, queue, now,
                   nsub, kind, jst, wakeAt, handle, body, starts, opts, rt, calls>>

NextDelay == ComputeDelay

SpecDelay == InitDelay /\ [][NextDelay]_vars

\* C12: before jitter, the delay of retry attempt a is
\* max(S, min(maxDelayMs, baseDelayMs * 2^(a-1))), S being the delay the
\* server advises in the message (0 when it advises none): it is never below
\* the advice, and an advice above maxDelayMs is used uncapped, so that a
\* 14 s hint gives at least 14000 ms.
C12_DelayBeforeJitter ==
    \A d \in ret :
        LET S == OrZero(arg.hint.advised)
        IN  /\ d.base = Max(S, Min(opts.maxDelayMs,
                                   opts.baseDelayMs * 2 ^ (arg.attempt - 1)))
            /\ d.base >= S
            /\ S = 14000 => d.base >= 14000

\* A 14 s hint under a smaller cap: the delay before jitter is 14000 ms,
\* above the exponential term.
C12_Witness ==
    /\ ret # {}
    /\ arg.hint.advised = {14000}
    /\ opts.maxDelayMs < 14000
    /\ \A d \in ret : d.base = 14000 /\ d.exp < 14000

\* ------------------------------------------- parseRetryDelayMs on its own
\* The pieces the messages parsed are made of, each with the pattern of
\* parseRetryDelayMs it is written for (1: RetryDelay: <N>s, 2: retry after
\* <N>s, 3: retryAfter: <N>, 0: none) and the delay it advises, in ms.
ParseFragments ==
    <<
       \* "RetryDelay: 2s"
       [text |-> <<"R", "e", "t", "r", "y", "D", "e", "l", "a", "y", ":", " ", "2", "s">>,
        pattern |-> 1, ms |-> 2000],
       \* "retrydelay:14 S"
       [text |-> <<"r", "e", "t", "r", "y", "d", "e", "l", "a", "y", ":", "1", "4", " ", "S">>,
        pattern |-> 1, ms |-> 14000],
       \* "retry after 30s"
       [text |-> <<"r", "e", "t", "r", "y", " ", "a", "f", "t", "e", "r", " ", "3", "0", "s">>,
        pattern |-> 2, ms |-> 30000],
       \* "RetryAfter7s"
       [text |-> <<"R", "e", "t", "r", "y", "A", "f", "t", "e", "r", "7", "s">>,
        pattern |-> 2, ms |-> 7000],
       \* "retryAfter: 500"
       [text |-> <<"r", "e", "t", "r", "y", "A", "f", "t", "e", "r", ":", " ", "5", "0", "0">>,
        pattern |-> 3, ms |-> 500],
       \* "retryafter:60000"
       [text |-> <<"r", "e", "t", "r", "y", "a", "f", "t", "e", "r", ":", "6", "0", "0", "0", "0">>,
        pattern |-> 3, ms |-> 60000],
       \* "retry after 5 min"
       [text |-> <<"r", "e", "t", "r", "y", " ", "a", "f", "t", "e", "r", " ", "5", " ", "m", "i", "n">>,
        pattern |-> 0, ms |-> 0] >>

\* The pieces are joined by "; ".
FragmentSeparator == <<";", " ">>

\* The message made of the pieces fs, in that order.
RECURSIVE MessageOf(_)
MessageOf(fs) ==
    IF fs = <<>> THEN <<>>
    ELSE IF Len(fs) = 1 THEN ParseFragments[fs[1]].text
    ELSE ParseFragments[fs[1]].text \o FragmentSeparator \o MessageOf(Tail(fs))

\* The messages parsed: up to MaxFragments pieces, in any order, repeats
\* included.
ParseInputs ==
    UNION {[1..n -> 1..Len(ParseFragments)] : n \in 1..MaxFragments}

InitParse ==
    /\ concurrency = LimiterConcurrency
    /\ minTimeMs = LimiterMinTimeMs
    /\ opts = GeminiOpts
    /\ InitIdle
    /\ arg \in ParseInputs
    /\ ret = {}

\* const serverDelayMs = parseRetryDelayMs(msg)
Parse ==
    /\ ret = {}
    /\ ret' = {parseRetryDelayMs(MessageOf(arg))}
    /\ UNCHANGED <<appVars, arg, concurrency, minTimeMs, running, lastStartAt, queue, now,
                   nsub, kind, jst, wakeAt, handle, body, starts, opts, rt, calls>>

NextParse == Parse

SpecParse == InitParse /\ [][NextParse]_vars

\* The places in fs of the pieces written for pattern p.
PiecesFor(fs, p) == {i \in 1..Len(fs) : ParseFragments[fs[i]].pattern = p}

\* The delay the claim says is advised by a message made of the pieces fs:
\* that of the leftmost piece of the first pattern, in the order 1, 2, 3,
\* that has any; none (the empty set) when no pattern has.
AdvisedBy(fs) ==
    IF PiecesFor(fs, 1) # {} THEN {ParseFragments[fs[SetMin(PiecesFor(fs, 1))]].ms}
    ELSE IF PiecesFor(fs, 2) # {} THEN {ParseFragments[fs[SetMin(PiecesFor(fs, 2))]].ms}
    ELSE IF PiecesFor(fs, 3) # {} THEN {ParseFragments[fs[SetMin(PiecesFor(fs, 3))]].ms}
    ELSE {}

\* C25: the delay the server advises is read with the first pattern that
\* matches, in the order RetryDelay: <N>s (N * 1000 ms), retry after <N>s
\* (N * 1000 ms), retryAfter: <N> (N ms); an earlier pattern wins over a
\* later one that gives a larger value or matches further left; when none
\* matches there is no advice, which counts as 0.
C25_FirstPatternWins ==
    \A serverDelayMs \in ret :
        /\ serverDelayMs = AdvisedBy(arg)
        /\ (\A i \in 1..Len(arg) : ParseFragments[arg[i]].pattern = 0) =>
                serverDelayMs = {} /\ OrZero(serverDelayMs) = 0

\* retryafter:60000, retry after 30s and RetryDelay: 2s, in that order in
\* one message: 2000 ms is read.
C25_Witness ==
    /\ arg = <<6, 3, 1>>
    /\ ret = {{2000}}

\* ------------------------------------------ withRetry without jitter
\* Options with jitterRatio = 0 and a budget that lets every failure the
\* environment offers be retried: the defaults' delays, a cap reached at the
\* second retry, a cap reached at once, and a cap below the 250 ms floor.
BackoffOptions ==
    {[maxRetries |-> MaxRetries + 1, baseDelayMs |-> d.base, maxDelayMs |-> d.max,
      jitterRatio |-> 0] :
        d \in {[base |-> 1200, max |-> 20000],
               [base |-> 200, max |-> 300],
               [base |-> 300, max |-> 300],
               [base |-> 100, max |-> 200]}}

InitBackoff ==
    /\ concurrency = LimiterConcurrency
    /\ minTimeMs = LimiterMinTimeMs
    /\ opts \in BackoffOptions
    /\ InitCommon

SpecBackoff == InitBackoff /\ [][NextRetry]_vars

\* The errors whose message holds no advice from the server.
UnhintedErrors ==
    {e \in ErrorIds : ErrorTable[e].message \in {MsgInvalid, MsgTooMany, MsgUnavailable, MsgFetch}}

\* The calls the claim is about: no jitter, no hint in any failure so far.
Unhinted(c) ==
    /\ opts.jitterRatio = 0
    /\ \A i \in 1..Len(rt[c].failed) : rt[c].failed[i] \in UnhintedErrors

\* C26 as stated: without a server hint and with jitterRatio = 0, the delays
\* slept by a call do not decrease with the attempt number, none exceeds
\* max(250, maxDelayMs), and once the exponential term reaches maxDelayMs
\* every later delay equals maxDelayMs.
C26_PlateauAtMaxDelay ==
    \A c \in Jobs :
        Unhinted(c) =>
            \A i \in 1..Len(rt[c].slept) :
                /\ i > 1 => rt[c].slept[i] >= rt[c].slept[i - 1]
                /\ rt[c].slept[i] <= Max(250, opts.maxDelayMs)
                /\ opts.baseDelayMs * 2 ^ (i - 1) >= opts.maxDelayMs =>
                        rt[c].slept[i] = opts.maxDelayMs

\* C26, amended: the delay slept before retry a is
\* max(250, min(maxDelayMs, baseDelayMs * 2^(a-1))): the delays do not
\* decrease, none exceeds max(250, maxDelayMs), and once the exponential
\* term reaches maxDelayMs every later delay equals max(250, maxDelayMs).
C26_BackoffNonDecreasing ==
    \A c \in Jobs :
        Unhinted(c) =>
            \A i \in 1..Len(rt[c].slept) :
                /\ rt[c].slept[i]
                        = Max(250, Min(opts.maxDelayMs, opts.baseDelayMs * 2 ^ (i - 1)))
                /\ i > 1 => rt[c].slept[i] >= rt[c].slept[i - 1]
                /\ rt[c].slept[i] <= Max(250, opts.maxDelayMs)
                /\ opts.baseDelayMs * 2 ^ (i - 1) >= opts.maxDelayMs =>
                        rt[c].slept[i] = Max(250, opts.maxDelayMs)

\* Three delays without hint: the floor, then the cap, then the cap again.
C26_Witness ==
    \E c \in Jobs :
        /\ Unhinted(c)
        /\ Len(rt[c].slept) = 3
        /\ rt[c].slept[1] = 250
        /\ rt[c].slept[2] > rt[c].slept[1]
        /\ rt[c].slept[2] = opts.maxDelayMs
        /\ rt[c].slept[3] = opts.maxDelayMs

\* ------------------------------------------------------------- the App component
\* src/unnamed/part_000.  One action is one turn of the event loop: an event
\* handler or the continuation of an await, together with the render it causes
\* and the [images] effect that runs after that render.

\* The file selections and the analyzeImage calls made in all.
MaxUploads == 3
MaxAnalyses == 3

MAX_IMAGES == 20

\* The files the user can pick: a name and the data URL readAsDataURL() gives,
\* a sequence of characters.  Two of them share a name and a length.
Files ==
    {[name |-> "front.jpg", url |-> <<1>>],
     [name |-> "rear.jpg", url |-> <<2, 2>>],
     [name |-> "front.jpg", url |-> <<3>>]}

\* analysis: { isAnalyzing: false, detections: [] }; an absent error is {}.
FreshAnalysis == [isAnalyzing |-> FALSE, detections |-> <<>>, error |-> {}]

AnalysisFailed == "Analysis failed. Retrying..."

\* What analyzeImage can resolve with for its call-th call: no detection, one
\* confirmed, or one that needs the zoom check.  A detection's id is unique.
Results(call) ==
    {<<>>} \cup
    {<<[id |-> call, isConfirmedDamage |-> b, zoomAnalysis |-> {}]>> : b \in BOOLEAN}

\* The component's state and its calls in flight, as one record.
AppHeap ==
    [images |-> images, activeIndex |-> activeIndex, zoomingId |-> zoomingId,
     readers |-> readers, analyses |-> analyses, zooms |-> zooms,
     nimg |-> nimg, ncall |-> ncall, nup |-> nup]

limiterVars ==
    <<concurrency, minTimeMs, running, lastStartAt, queue, now, nsub,
      kind, jst, wakeAt, handle, body, starts, opts, rt, calls, arg, ret>>

\* The turn ends in h; no more than MaxAnalyses calls are followed.
AppCommit(h) ==
    /\ h.ncall <= MaxAnalyses
    /\ images' = h.images
    /\ activeIndex' = h.activeIndex
    /\ zoomingId' = h.zoomingId
    /\ readers' = h.readers
    /\ analyses' = h.analyses
    /\ zooms' = h.zooms
    /\ nimg' = h.nimg
    /\ ncall' = h.ncall
    /\ nup' = h.nup
    /\ UNCHANGED limiterVars

\* arr[index] of JavaScript, 0-based: {} when undefined.
At(arr, index) == IF index \in 0..(Len(arr) - 1) THEN {arr[index + 1]} ELSE {}

\* images.findIndex(img => img.analysis.detections.length === 0 &&
\*                         !img.analysis.isAnalyzing && !img.analysis.error)
nextToProcessIndex(imgs) ==
    LET found == {i \in 0..(Len(imgs) - 1) :
                     /\ Len(imgs[i + 1].analysis.detections) = 0
                     /\ ~imgs[i + 1].analysis.isAnalyzing
                     /\ imgs[i + 1].analysis.error = {}}
    IN  IF found = {} THEN -1 ELSE CHOOSE i \in found : \A k \in found : i <= k

\* images.some(img => img.analysis.isAnalyzing)
isAnythingAnalyzing(imgs) == \E i \in 1..Len(imgs) : imgs[i].analysis.isAnalyzing

RECURSIVE setImages(_, _)

\* setImages(prev => prev.map((img, idx) => idx === index
\*     ? { ...img, analysis: { ...img.analysis, ...updates } } : img))
updateImageAnalysis(h, index, updates) ==
    setImages(h, [idx \in 1..Len(h.images) |->
                     IF idx - 1 = index
                     THEN [h.images[idx] EXCEPT !.analysis = updates @@ @]
                     ELSE h.images[idx]])

\* Up to the await of analyzeImage(targetImage.url): the call is in flight with
\* the index and the image its caller captured.  sent counts, per image, the
\* analyzeImage calls made for it since it was uploaded or last re-scanned.
runAnalysisForIndex(h, index) ==
    LET targetImage == At(h.images, index)
    IN  IF targetImage = {} THEN h
        ELSE LET target == CHOOSE img \in targetImage : TRUE
                 call == [call |-> h.ncall + 1, index |-> index,
                          targetImage |-> target.id, url |-> target.url]
             IN  updateImageAnalysis(
                     [h EXCEPT !.ncall = @ + 1,
                               !.analyses = @ \cup {call},
                               !.images[index + 1].sent = @ + 1],
                     index, [isAnalyzing |-> TRUE, error |-> {}])

\* The body of the [images] effect.
processNextInQueue(h) ==
    IF nextToProcessIndex(h.images) # -1 /\ ~isAnythingAnalyzing(h.images)
    THEN runAnalysisForIndex(h, nextToProcessIndex(h.images))
    ELSE h

\* useEffect(() => { ...; processNextInQueue(); }, [images])
useEffect(h) == processNextInQueue(h)

\* A new images array is rendered, and the effect runs after the render.
setImages(h, imgs) == useEffect([h EXCEPT !.images = imgs])

\* handleFileUpload, one file picked: files.slice(0, remainingSlots), then a
\* FileReader per file.  A file is not picked again while it is being read.
handleFileUpload(h, file) ==
    LET remainingSlots == MAX_IMAGES - Len(h.images)
    IN  IF remainingSlots >= 1
        THEN [h EXCEPT !.readers = @ \cup {file}, !.nup = @ + 1]
        ELSE [h EXCEPT !.nup = @ + 1]

\* reader.onload: the new image is appended unless prev holds one of the same
\* name and the same url length.
readerOnload(h, file) ==
    LET newImg == [id |-> h.nimg + 1, url |-> file.url, name |-> file.name,
                   analysis |-> FreshAnalysis, sent |-> 0]
        prev == h.images
        h1 == [h EXCEPT !.readers = @ \ {file}, !.nimg = @ + 1]
    IN  IF \E i \in 1..Len(prev) :
               prev[i].name = file.name /\ Len(prev[i].url) = Len(newImg.url)
        THEN h1
        ELSE setImages(h1, Append(prev, newImg))

\* removeImage(id, e)
removeImage(h, id) ==
    LET indexToRemove ==
            IF \E i \in 1..Len(h.images) : h.images[i].id = id
            THEN (CHOOSE i \in 1..Len(h.images) : h.images[i].id = id) - 1
            ELSE -1
        newImages == SelectSeq(h.images, LAMBDA img : img.id # id)
        newActive ==
            IF h.activeIndex >= Len(newImages) THEN Max(0, Len(newImages) - 1)
            ELSE IF indexToRemove < h.activeIndex THEN h.activeIndex - 1
            ELSE h.activeIndex
    IN  setImages([h EXCEPT !.activeIndex = newActive], newImages)

\* resetAll
resetAll(h) == setImages([h EXCEPT !.activeIndex = 0], <<>>)

\* The Re-scan Photo button:
\*   onClick={() => updateImageAnalysis(activeIndex, { detections: [], error: undefined })}
rescan(h) ==
    updateImageAnalysis([h EXCEPT !.images[h.activeIndex + 1].sent = 0],
                        h.activeIndex, [detections |-> <<>>, error |-> {}])

\* performZoomAnalysisForImage(imgIndex, detection) up to the await of
\* zoomAnalysis(...): targetImage is the image its caller captured.
performZoomAnalysisForImage(h, c, detection) ==
    [h EXCEPT !.zoomingId = detection.id,
              !.zooms = @ \cup {[imgIndex |-> c.index, detection |-> detection.id,
                                 url |-> c.url]}]

\* The rest of runAnalysisForIndex's try block, analyzeImage having resolved
\* with results: they are written at the captured index of prev, and the
\* first detection that is not confirmed goes to the zoom check.
analysisResolved(h, c, results) ==
    LET h1 == [h EXCEPT !.analyses = @ \ {c}]
        h2 == setImages(h1, [idx \in 1..Len(h1.images) |->
                                IF idx - 1 = c.index
                                THEN [h1.images[idx] EXCEPT
                                         !.analysis = [isAnalyzing |-> FALSE,
                                                       detections |-> results,
                                                       error |-> {}]]
                                ELSE h1.images[idx]])
    IN  IF results # <<>> /\ ~results[1].isConfirmedDamage
        THEN performZoomAnalysisForImage(h2, c, results[1])
        ELSE h2

\* runAnalysisForIndex's catch block, analyzeImage having rejected.
analysisRejected(h, c) ==
    updateImageAnalysis([h EXCEPT !.analyses = @ \ {c}], c.index,
                        [isAnalyzing |-> FALSE, detections |-> <<>>,
                         error |-> {AnalysisFailed}])

\* zoomAnalysis(...) resolved with a report, here the url it was made from:
\* the report is written on the detection of that id at the captured index.
zoomResolved(h, z) ==
    LET h1 == [h EXCEPT !.zooms = @ \ {z}, !.zoomingId = 0]
    IN  setImages(h1, [idx \in 1..Len(h1.images) |->
                          IF idx - 1 = z.imgIndex
                          THEN [h1.images[idx] EXCEPT !.analysis.detections =
                                   [k \in 1..Len(@) |->
                                       IF @[k].id = z.detection
                                       THEN [@[k] EXCEPT !.zoomAnalysis = {z.url}]
                                       ELSE @[k]]]
                          ELSE h1.images[idx]])

\* zoomAnalysis(...) rejected: console.error, then the finally block.
zoomRejected(h, z) == [h EXCEPT !.zooms = @ \ {z}, !.zoomingId = 0]

\* ---- the actions of the App component
HandleFileUpload ==
    /\ nup < MaxUploads
    /\ \E file \in Files \ readers : AppCommit(handleFileUpload(AppHeap, file))

ReaderOnload == \E file \in readers : AppCommit(readerOnload(AppHeap, file))

\* A thumbnail is clicked: onClick={() => setActiveIndex(idx)}
SetActiveIndex ==
    \E idx \in 0..(Len(images) - 1) :
        /\ idx # activeIndex
        /\ AppCommit([AppHeap EXCEPT !.activeIndex = idx])

RemoveImage == \E i \in 1..Len(images) : AppCommit(removeImage(AppHeap, images[i].id))

\* Clear All is rendered when images.length > 0.
ResetAll == Len(images) > 0 /\ AppCommit(resetAll(AppHeap))

\* Re-scan Photo is rendered when currentImage is set, disabled while it is
\* being analysed.
Rescan ==
    /\ At(images, activeIndex) # {}
    /\ ~images[activeIndex + 1].analysis.isAnalyzing
    /\ AppCommit(rescan(AppHeap))

AnalyzeReturns ==
    \E c \in analyses : \E results \in Results(c.call) :
        AppCommit(analysisResolved(AppHeap, c, results))

AnalyzeFails == \E c \in analyses : AppCommit(analysisRejected(AppHeap, c))

ZoomReturns == \E z \in zooms : AppCommit(zoomResolved(AppHeap, z))

ZoomFails == \E z \in zooms : AppCommit(zoomRejected(AppHeap, z))

InitApp ==
    /\ concurrency = LimiterConcurrency
    /\ minTimeMs = LimiterMinTimeMs
    /\ opts = GeminiOpts
    /\ InitCommon

NextApp ==
    \/ HandleFileUpload \/ ReaderOnload \/ SetActiveIndex \/ RemoveImage \/ ResetAll
    \/ Rescan \/ AnalyzeReturns \/ AnalyzeFails \/ ZoomReturns \/ ZoomFails

SpecApp == InitApp /\ [][NextApp]_vars

\* C28: an image is submitted to analyzeImage at most once per upload or
\* re-scan: once its analysis has completed, the effect does not start another
\* one for it until Re-scan is pressed.
C28_AnalysedOncePerScan == \A i \in 1..Len(images) : images[i].sent <= 1

\* C29: what an analyzeImage call writes when it settles lands on the image
\* whose data was sent, never on another one.
C29_ResultsOnOwnImage ==
    [][\A c \in analyses \ analyses' :
           \A img \in At(images, c.index) : img.id = c.targetImage]_vars

====
